---- MODULE Spec2Model ----
(***************************************************************************)
(* Model of work_flow.py (Sequoia): the point-in-time filter, the          *)
(* per-strategy screening loop, the composite signals, the exchange        *)
(* classifier and the snapshot fetch.                                      *)
(*                                                                         *)
(* Python values are modelled as follows.  A str is the sequence of its    *)
(* characters (<<"6","0","0","5","1","9">>), so that startswith and the    *)
(* f-string formatting are computed.  None is the empty sequence and a     *)
(* set end_date is the one-element sequence <<d>>.  A dict is the sequence *)
(* of its <<key, value>> items in insertion order.  A DataFrame of daily   *)
(* bars is the sequence of its bar dates (column 日期).                    *)
(* Strategy names are the names work_flow.py gives the match sets:         *)
(*   volume_up = 放量上涨, ma_up = 均线多头, parking_apron = 停机坪,       *)
(*   backtrace_ma = 回踩年线, platform_break = 突破平台,                   *)
(*   low_backtrace = 无大幅回撤, turtle_trade = 海龟交易法则,              *)
(*   flag_shape = 高而窄的旗形, climax_limitdown = 放量跌停.               *)
(***************************************************************************)
EXTENDS Integers, Sequences, FiniteSets

VARIABLES
    pc,                \* position of the run / of the function under test
    arg,               \* argument of the function under test
    ret,               \* its return value
    end_date,          \* settings.config['end_date']
    stocks_data,       \* dict code -> series, as built by data_fetcher.run
    strategy_results,  \* dict strategy -> list of matched keys
    sent,              \* messages handed to push.statistics / push.strategy
    log,               \* snapshot fetches and sleeps, in order
    evaluated,         \* <<strategy, code>> pairs the filter was applied to
    raised             \* where an exception left the run, or "none"

vars == <<pc, arg, ret, end_date, stocks_data, strategy_results, sent, log,
          evaluated, raised>>

run == <<end_date, stocks_data, strategy_results, sent, log, evaluated, raised>>

----------------------------------------------------------------------------
(* Bounds *)

MaxDate == 2
MaxBars == 2

----------------------------------------------------------------------------
(* Sample data *)

None == <<>>

Dates == 1..MaxDate

EndDates == {None} \cup {<<d>> : d \in Dates}

\* ascending daily bars, at most MaxBars of them
SeriesPool ==
    {s \in UNION {[1..n -> Dates] : n \in 0..MaxBars} :
        \A i \in 1..(Len(s) - 1) : s[i] < s[i + 1]}

SH == <<"6", "0", "0", "5", "1", "9">>
SZ == <<"0", "0", "0", "0", "0", "1">>
CY == <<"3", "0", "0", "7", "5", "0">>
BJ == <<"8", "3", "0", "7", "9", "9">>
KC == <<"6", "8", "8", "9", "8", "1">>
BS == <<"9", "0", "0", "9", "0", "1">>

SampleCodes == <<SH, SZ, CY, BJ, KC, BS>>

----------------------------------------------------------------------------
(* strategy.*: the opaque predicates (code, series, end_date) -> bool.     *)
(* "always" and "never" are constant; "needs_history" reads the second bar *)
(* of the series and raises when there is none.                            *)

StrategyFuns == {"always", "never", "needs_history"}

Returned(v, n) == [raised |-> FALSE, value |-> v, calls |-> n]

Raised(n) == [raised |-> TRUE, value |-> FALSE, calls |-> n]

strategy_fun(f, code, series, cutoff) ==
    CASE f = "always" -> Returned(TRUE, 1)
      [] f = "never" -> Returned(FALSE, 1)
      [] OTHER -> IF Len(series) < 2 THEN Raised(1) ELSE Returned(TRUE, 1)

----------------------------------------------------------------------------
(* check_enter / end_date_filter *)

end_date_filter_le(cutoff, f, stock_data) ==
    IF cutoff # None /\ stock_data[2] = <<>> THEN Raised(0)
    ELSE IF cutoff # None /\ cutoff[1] <= stock_data[2][1] THEN Returned(FALSE, 0)
    ELSE strategy_fun(f, stock_data[1], stock_data[2], cutoff)

\* stock_data is an item <<key, series>>; series.iloc[0] of an empty frame
\* raises IndexError
end_date_filter(cutoff, f, stock_data) ==
    IF cutoff # None /\ stock_data[2] = <<>> THEN Raised(0)
    ELSE IF cutoff # None /\ cutoff[1] < stock_data[2][1] THEN Returned(FALSE, 0)
    ELSE strategy_fun(f, stock_data[1], stock_data[2], cutoff)

----------------------------------------------------------------------------
(* Specification of the filter alone *)

NoRet == <<>>

RunIdle ==
    /\ end_date = None
    /\ stocks_data = <<>>
    /\ strategy_results = <<>>
    /\ sent = <<>>
    /\ log = <<>>
    /\ evaluated = {}
    /\ raised = "none"

InitFilter ==
    /\ pc = "filter_call"
    /\ arg \in [end_date : EndDates, strategy_fun : StrategyFuns,
                stock_data : {SH, SZ} \X SeriesPool]
    /\ ret = NoRet
    /\ RunIdle

CallEndDateFilter ==
    /\ pc = "filter_call"
    /\ ret' = end_date_filter(arg.end_date, arg.strategy_fun, arg.stock_data)
    /\ pc' = "filter_return"
    /\ UNCHANGED <<arg, run>>

NextFilter == CallEndDateFilter

SpecFilter == InitFilter /\ [][NextFilter]_vars

\* C1: with a cutoff and a first bar strictly after it the filter returns
\* False and the strategy is not called; with no cutoff, or a first bar not
\* after the cutoff, the strategy is called exactly once and the filter's
\* outcome is the strategy's outcome.
C1_PointInTime ==
    pc = "filter_return" =>
        LET cutoff == arg.end_date
            series == arg.stock_data[2]
            own == strategy_fun(arg.strategy_fun, arg.stock_data[1], series, cutoff)
        IN  /\ (cutoff # None /\ series # <<>> /\ series[1] > cutoff[1]) =>
                (~ret.raised /\ ret.value = FALSE /\ ret.calls = 0)
            /\ (cutoff = None \/ (series # <<>> /\ series[1] <= cutoff[1])) =>
                (ret.calls = 1 /\ ret.raised = own.raised /\ ret.value = own.value)

C1_Witness ==
    /\ pc = "filter_return"
    /\ arg.end_date # None
    /\ arg.stock_data[2] # <<>>
    /\ arg.stock_data[2][1] > arg.end_date[1]
    /\ arg.strategy_fun = "always"
    /\ ret.value = FALSE
    /\ ret.calls = 0

\* C2: with a cutoff and an empty series the filter returns False, raises
\* nothing and does not call the strategy.
C2_EmptySeriesIsFalse ==
    (pc = "filter_return" /\ arg.end_date # None /\ arg.stock_data[2] = <<>>) =>
        (~ret.raised /\ ret.value = FALSE /\ ret.calls = 0)

----------------------------------------------------------------------------
(* dict and list helpers *)

ToSet(list) == {list[i] : i \in DOMAIN list}

HasKey(d, k) == \E i \in DOMAIN d : d[i][1] = k

\* dict.get(k, default)
Get(d, k, default) ==
    IF HasKey(d, k) THEN d[CHOOSE i \in DOMAIN d : d[i][1] = k][2] ELSE default

\* list(a_set): every element once, in an order the hash seed decides
Lists(S) ==
    {l \in [1..Cardinality(S) -> S] : \A i, j \in DOMAIN l : l[i] = l[j] => i = j}


----------------------------------------------------------------------------
(* The registry of prepare(), in insertion order.  The Monday branch        *)
(* re-assigns ma_up the function it already has and changes nothing.       *)

strategies ==
    <<"volume_up", "ma_up", "parking_apron", "backtrace_ma", "platform_break",
      "low_backtrace", "turtle_trade", "flag_shape", "climax_limitdown">>

----------------------------------------------------------------------------
(* Composite signals, as the sets the three functions build *)

strong_trend_signal_wrong_key(results) ==
    ToSet(Get(results, "volume_up", <<>>))
        \cap ToSet(Get(results, "ma_up", <<>>))
        \cap ToSet(Get(results, "parking_apron", <<>>))

strong_trend_signal(results) ==
    ToSet(Get(results, "volume_up", <<>>))
        \cap ToSet(Get(results, "ma_up", <<>>))
        \cap ToSet(Get(results, "platform_break", <<>>))

pullback_buy_signal(results) ==
    ToSet(Get(results, "backtrace_ma", <<>>))
        \cap ToSet(Get(results, "ma_up", <<>>))
        \cap ToSet(Get(results, "low_backtrace", <<>>))

short_term_breakout_signal(results) ==
    ToSet(Get(results, "volume_up", <<>>))
        \cap ToSet(Get(results, "parking_apron", <<>>))
        \cap ToSet(Get(results, "flag_shape", <<>>))

----------------------------------------------------------------------------
(* Specification of the composite signals alone: any dict of at most       *)
(* MaxKeys strategies, in any insertion order, each with a list of codes.  *)

MaxKeys == 3

MatchLists == {<<>>, <<SH>>, <<SZ>>, <<SH, SZ>>}

ResultDicts ==
    UNION {{d \in [1..n -> ToSet(strategies) \X MatchLists] :
               \A i, j \in 1..n : d[i][1] = d[j][1] => i = j} : n \in 0..MaxKeys}

\* the dict of the items of d with the first two inserted the other way
\* round, and the one with the first item inserted last: any insertion
\* order is reached from any other by these two moves
Reorderings(d) ==
    IF Len(d) < 2 THEN {d}
    ELSE {<<d[2], d[1]>> \o SubSeq(d, 3, Len(d)), Append(Tail(d), d[1])}

InitCompose ==
    /\ pc = "compose_call"
    /\ arg \in ResultDicts
    /\ ret = NoRet
    /\ RunIdle

CallComposites ==
    /\ pc = "compose_call"
    /\ \E st \in Lists(strong_trend_signal(arg)),
          pb \in Lists(pullback_buy_signal(arg)),
          br \in Lists(short_term_breakout_signal(arg)) :
            ret' = [strong_trend |-> st, pullback |-> pb, breakout |-> br]
    /\ pc' = "compose_return"
    /\ UNCHANGED <<arg, run>>

NextCompose == CallComposites

SpecCompose == InitCompose /\ [][NextCompose]_vars

\* the match set the dict holds under a strategy name; no entry, no match
Matched(d, name) ==
    UNION {ToSet(d[i][2]) : i \in {j \in DOMAIN d : d[j][1] = name}}

NoDuplicates(list) == \A i, j \in DOMAIN list : list[i] = list[j] => i = j

\* C3: each composite is exactly the intersection of its three constituent
\* match sets (an absent strategy counting as empty), lists no code twice,
\* and is the same set under every insertion order of the dict.
C3_Composites ==
    pc = "compose_return" =>
        /\ ToSet(ret.strong_trend) =
              Matched(arg, "volume_up") \cap Matched(arg, "ma_up")
                  \cap Matched(arg, "platform_break")
        /\ ToSet(ret.pullback) =
              Matched(arg, "backtrace_ma") \cap Matched(arg, "ma_up")
                  \cap Matched(arg, "low_backtrace")
        /\ ToSet(ret.breakout) =
              Matched(arg, "volume_up") \cap Matched(arg, "parking_apron")
                  \cap Matched(arg, "flag_shape")
        /\ NoDuplicates(ret.strong_trend)
        /\ NoDuplicates(ret.pullback)
        /\ NoDuplicates(ret.breakout)
        /\ \A d \in Reorderings(arg) :
              /\ strong_trend_signal(d) = ToSet(ret.strong_trend)
              /\ pullback_buy_signal(d) = ToSet(ret.pullback)
              /\ short_term_breakout_signal(d) = ToSet(ret.breakout)

C3_Witness ==
    /\ pc = "compose_return"
    /\ Len(arg) = 3
    /\ arg[1][1] = "platform_break"
    /\ arg[3][1] = "volume_up"
    /\ ret.strong_trend = <<SZ>>
    /\ Matched(arg, "volume_up") = {SH, SZ}
    /\ ret.pullback = <<>>

----------------------------------------------------------------------------
(* Python values reaching classify_by_exchange: a str or a tuple *)

PyStr(chars) == [t |-> "str", s |-> chars, e |-> <<>>]

PyTuple(elems) == [t |-> "tuple", s |-> <<>>, e |-> elems]

\* len(v)
PyLen(v) == IF v.t = "tuple" THEN Len(v.e) ELSE Len(v.s)

\* v[i]: an element of a tuple, a one-character str of a str
PyItem(v, i) == IF v.t = "tuple" THEN v.e[i] ELSE PyStr(<<v.s[i]>>)

\* str.startswith
startswith(chars, prefix) ==
    Len(chars) >= Len(prefix) /\ SubSeq(chars, 1, Len(prefix)) = prefix

----------------------------------------------------------------------------
(* The universe snapshot: rows of 代码 (code), 名称 (name), 涨跌幅 (pct,   *)
(* in tenths of a percent).  CY is not listed in it.                       *)

MarketSnapshot ==
    <<[code |-> SH, name |-> <<"M", "T">>, pct |-> 96],
      [code |-> SZ, name |-> <<"P", "A">>, pct |-> -96],
      [code |-> KC, name |-> <<"S", "M">>, pct |-> 51],
      [code |-> BJ, name |-> <<"B", "X">>, pct |-> -52],
      [code |-> BS, name |-> <<"B", "S">>, pct |-> 0]>>

\* the placeholder 未知名称
UnknownName == <<"N", "/", "A">>

\* stock_info.get(code, 未知名称); in the dict comprehension a later row of
\* the same code replaces an earlier one
stock_info_get(all_data, code) ==
    LET rows == {i \in DOMAIN all_data : all_data[i].code = code}
    IN  IF rows = {} THEN UnknownName
        ELSE all_data[CHOOSE i \in rows : \A j \in rows : j <= i].name

\* f"{stock_code} ({name})"
Entry(code, name) == code \o <<" ", "(">> \o name \o <<")">>

NoBuckets == [shanghai |-> <<>>, shenzhen |-> <<>>, beijing |-> <<>>, star |-> <<>>]

\* the if/elif chain of one entry
Bucketed_prefix6(classified, code, name) ==
    IF startswith(code, <<"6">>)
    THEN [classified EXCEPT !.shanghai = Append(@, Entry(code, name))]
    ELSE IF startswith(code, <<"0", "0">>) \/ startswith(code, <<"3", "0">>)
    THEN [classified EXCEPT !.shenzhen = Append(@, Entry(code, name))]
    ELSE IF startswith(code, <<"8">>)
    THEN [classified EXCEPT !.beijing = Append(@, Entry(code, name))]
    ELSE IF startswith(code, <<"6", "8">>)
    THEN [classified EXCEPT !.star = Append(@, Entry(code, name))]
    ELSE classified

Bucketed(classified, code, name) ==
    IF startswith(code, <<"6", "0">>)
    THEN [classified EXCEPT !.shanghai = Append(@, Entry(code, name))]
    ELSE IF startswith(code, <<"0", "0">>) \/ startswith(code, <<"3", "0">>)
    THEN [classified EXCEPT !.shenzhen = Append(@, Entry(code, name))]
    ELSE IF startswith(code, <<"8">>)
    THEN [classified EXCEPT !.beijing = Append(@, Entry(code, name))]
    ELSE IF startswith(code, <<"6", "8">>)
    THEN [classified EXCEPT !.star = Append(@, Entry(code, name))]
    ELSE classified

\* one level of unwrapping: a 1-tuple whose only element is a tuple
Unwrapped(stock_tuple) ==
    IF stock_tuple.t = "tuple" /\ Len(stock_tuple.e) = 1 /\ stock_tuple.e[1].t = "tuple"
    THEN stock_tuple.e[1]
    ELSE stock_tuple

RECURSIVE classify_from(_, _, _, _)
\* the loop over stocks from index i on; a stock_code that is no str has no
\* startswith and raises AttributeError
classify_from(stocks, all_data, i, classified) ==
    IF i > Len(stocks) THEN [raised |-> FALSE, classified |-> classified]
    ELSE LET stock_tuple == Unwrapped(stocks[i])
         IN  IF PyLen(stock_tuple) # 2
             THEN classify_from(stocks, all_data, i + 1, classified)
             ELSE LET stock_code == PyItem(stock_tuple, 1)
                  IN  IF stock_code.t # "str"
                      THEN [raised |-> TRUE, classified |-> classified]
                      ELSE classify_from(stocks, all_data, i + 1,
                               Bucketed(classified, stock_code.s,
                                        stock_info_get(all_data, stock_code.s)))

classify_by_exchange(stocks, all_data) == classify_from(stocks, all_data, 1, NoBuckets)

----------------------------------------------------------------------------
(* Specification of the classifier alone: lists of at most MaxEntries      *)
(* entries, each a sample code in one of five shapes.                      *)

MaxEntries == 2

Shapes == {"pair", "nested", "flat", "wrapped", "triple"}

Shaped(shape, code) ==
    LET label == PyStr(<<"x">>)
    IN  CASE shape = "pair" -> PyTuple(<<PyStr(code), label>>)
          [] shape = "nested" -> PyTuple(<<PyTuple(<<PyStr(code), label>>)>>)
          [] shape = "flat" -> PyStr(code)
          [] shape = "wrapped" -> PyTuple(<<PyStr(code)>>)
          [] OTHER -> PyTuple(<<PyStr(code), label, label>>)

EntryPool == {Shaped(sh, c) : sh \in Shapes, c \in ToSet(SampleCodes)}

InitClassify ==
    /\ pc = "classify_call"
    /\ arg \in UNION {[1..n -> EntryPool] : n \in 0..MaxEntries}
    /\ ret = NoRet
    /\ RunIdle

CallClassify ==
    /\ pc = "classify_call"
    /\ ret' = classify_by_exchange(arg, MarketSnapshot)
    /\ pc' = "classify_return"
    /\ UNCHANGED <<arg, run>>

NextClassify == CallClassify

SpecClassify == InitClassify /\ [][NextClassify]_vars

BucketNames == {"shanghai", "shenzhen", "beijing", "star"}

\* the entries of a bucket that are entries of the code
EntriesOf(classified, b, code) ==
    {i \in DOMAIN classified[b] : startswith(classified[b][i], code \o <<" ", "(">>)}

\* the bucket the prefix rules of the specification give a code
Venue(code) ==
    CASE code[1] = "6" /\ code[2] = "8" -> "star"
      [] code[1] = "6" /\ code[2] = "0" -> "shanghai"
      [] code[2] = "0" /\ code[1] \in {"0", "3"} -> "shenzhen"
      [] code[1] = "8" -> "beijing"
      [] OTHER -> "none"

IsShaped(v, shape) == \E c \in ToSet(SampleCodes) : v = Shaped(shape, c)

CodeOf(v) == CHOOSE c \in ToSet(SampleCodes) : \E sh \in Shapes : v = Shaped(sh, c)

\* C4: for a list of distinct (code, name) entries every code has exactly
\* one entry in the bucket of its prefix and none in any other bucket; a
\* code of no prefix rule is in no bucket.
C4_OneBucketByPrefix ==
    (/\ pc = "classify_return"
     /\ \A i \in DOMAIN arg : IsShaped(arg[i], "pair")
     /\ NoDuplicates(arg)) =>
        /\ ~ret.raised
        /\ \A i \in DOMAIN arg : \A b \in BucketNames :
              Cardinality(EntriesOf(ret.classified, b, CodeOf(arg[i]))) =
                  IF b = Venue(CodeOf(arg[i])) THEN 1 ELSE 0

C4_Witness ==
    /\ pc = "classify_return"
    /\ arg = <<Shaped("pair", KC), Shaped("pair", BS)>>
    /\ ret.classified.star = <<Entry(KC, <<"S", "M">>)>>
    /\ ret.classified.shanghai = <<>>
    /\ ret.classified.beijing = <<>>

\* C5: a flat code string, or a 1-tuple wrapping a code, whose prefix
\* matches a rule has an entry in the bucket of that prefix.
C5_FlatAndWrappedCodes ==
    pc = "classify_return" =>
        \A i \in DOMAIN arg :
            ((IsShaped(arg[i], "flat") \/ IsShaped(arg[i], "wrapped"))
                /\ Venue(CodeOf(arg[i])) # "none") =>
                    EntriesOf(ret.classified, Venue(CodeOf(arg[i])), CodeOf(arg[i])) # {}

----------------------------------------------------------------------------
(* get_retry_session / fetch_data_with_retry.  The snapshot source is the  *)
(* sequence of HTTP statuses it would answer successive attempts with.     *)

RetryTotal == 5

Statuses == {200, 404, 503}

Upstreams == [1..(RetryTotal + 1) -> Statuses]

get_retry_session ==
    [total |-> RetryTotal, backoff_factor |-> 1,
     status_forcelist |-> {500, 502, 503, 504}, allowed_methods |-> {"GET"},
     mounted |-> "https://"]

\* ak.stock_zh_a_spot_em() is called once and its exception re-raised; the
\* session built on the line before is handed to nothing
fetch_data_with_retry(upstream) ==
    LET session == get_retry_session
    IN  IF upstream[1] = 200
        THEN [ok |-> TRUE, attempts |-> 1]
        ELSE [ok |-> FALSE, attempts |-> 1]

InitFetch ==
    /\ pc = "fetch_call"
    /\ arg \in Upstreams
    /\ ret = NoRet
    /\ RunIdle

CallFetch ==
    /\ pc = "fetch_call"
    /\ ret' = fetch_data_with_retry(arg)
    /\ pc' = "fetch_return"
    /\ UNCHANGED <<arg, run>>

NextFetch == CallFetch

SpecFetch == InitFetch /\ [][NextFetch]_vars

Transient(status) == status \in {500, 502, 503, 504}

\* the first attempt of the source that is not a transient failure
FirstSettled(upstream) ==
    IF \E i \in DOMAIN upstream : ~Transient(upstream[i])
    THEN CHOOSE i \in DOMAIN upstream :
            ~Transient(upstream[i]) /\ \A j \in 1..(i - 1) : Transient(upstream[j])
    ELSE 0

\* C9: a transient (5xx) failure is followed by further attempts, at most 5
\* in all, and the error is raised only once they are used up; a fetch
\* whose first attempt fails transiently and whose next succeeds returns
\* the data.
C9_RetriesTransient ==
    pc = "fetch_return" =>
        LET n == FirstSettled(arg)
        IN  /\ ret.attempts <= 5
            /\ (n \in 1..5 /\ arg[n] = 200) => (ret.ok /\ ret.attempts = n)
            /\ (Transient(arg[1]) /\ ~ret.ok) => ret.attempts > 1

----------------------------------------------------------------------------
(* statistics: the market-breadth counters and the one message *)

\* len(all_data.loc[mask]) for the four masks on 涨跌幅
statistics(snapshot) ==
    LET limitup == Cardinality({i \in DOMAIN snapshot : snapshot[i].pct >= 95})
        limitdown == Cardinality({i \in DOMAIN snapshot : snapshot[i].pct <= -95})
        up5 == Cardinality({i \in DOMAIN snapshot : snapshot[i].pct >= 50})
        down5 == Cardinality({i \in DOMAIN snapshot : snapshot[i].pct <= -50})
    IN  [channel |-> "statistics", kind |-> "summary", subject |-> "market",
         body |-> <<limitup, limitdown, up5, down5>>]

----------------------------------------------------------------------------
(* check: the filter over stocks_data.items(), then the per-strategy alert *)

RECURSIVE filter_from(_, _, _, _, _, _)
\* filter(m_filter, items) from item i on: keys collects the items kept,
\* seen the items the filter was applied to; a raising item ends the loop
filter_from(items, cutoff, f, i, keys, seen) ==
    IF i > Len(items) THEN [raised |-> FALSE, keys |-> keys, seen |-> seen]
    ELSE LET r == end_date_filter(cutoff, f, items[i])
         IN  IF r.raised
             THEN [raised |-> TRUE, keys |-> keys, seen |-> seen \cup {items[i][1]}]
             ELSE filter_from(items, cutoff, f, i + 1,
                              IF r.value THEN Append(keys, items[i][1]) ELSE keys,
                              seen \cup {items[i][1]})

Alert(strategy, keys) ==
    [channel |-> "strategy", kind |-> "alert", subject |-> strategy, body |-> keys]

\* the result of check: the keys returned and the messages pushed
check(items, strategy, f, cutoff) ==
    LET r == filter_from(items, cutoff, f, 1, <<>>, {})
    IN  [raised |-> r.raised, keys |-> r.keys, seen |-> r.seen,
         pushed |-> IF ~r.raised /\ Len(r.keys) > 0
                    THEN <<Alert(strategy, r.keys)>> ELSE <<>>]

----------------------------------------------------------------------------
(* One run of prepare() *)

NumStocks == 2

\* the snapshot a successful fetch returns
all_data == SubSeq(MarketSnapshot, 1, NumStocks)

\* the histories data_fetcher finds: none, listed on day 2 with one bar,
\* listed on day 1 with two
HistoryPool == {<<>>, <<2>>, <<1, 2>>}

\* the source as a fetch of the run meets it: up, gone, or down throughout
SnapshotRuns == {[i \in 1..(RetryTotal + 1) |-> st] : st \in Statuses}

Init ==
    /\ pc = "prepare"
    /\ arg = <<>>
    /\ ret = NoRet
    /\ end_date \in EndDates
    /\ stocks_data = <<>>
    /\ strategy_results = <<>>
    /\ sent = <<>>
    /\ log = <<>>
    /\ evaluated = {}
    /\ raised = "none"

\* prepare, up to the call of process: the fetch, then statistics
PrepareFetch_swallowed ==
    /\ pc = "prepare"
    /\ \E upstream \in SnapshotRuns :
          LET r == fetch_data_with_retry(upstream)
          IN  /\ log' = Append(log, IF r.ok THEN "fetch_ok" ELSE "fetch_error")
              /\ sent' = Append(sent, statistics(IF r.ok THEN all_data ELSE <<>>))
              /\ pc' = "process"
              /\ raised' = raised
    /\ UNCHANGED <<arg, ret, end_date, stocks_data, strategy_results, evaluated>>

PrepareFetch ==
    /\ pc = "prepare"
    /\ \E upstream \in SnapshotRuns :
          LET r == fetch_data_with_retry(upstream)
          IN  IF r.ok
              THEN /\ log' = Append(log, "fetch_ok")
                   /\ sent' = Append(sent, statistics(all_data))
                   /\ pc' = "process"
                   /\ raised' = raised
              ELSE /\ log' = Append(log, "fetch_error")
                   /\ sent' = sent
                   /\ pc' = "failed"
                   /\ raised' = "prepare"
    /\ UNCHANGED <<arg, ret, end_date, stocks_data, strategy_results, evaluated>>

\* data_fetcher.run(stocks): one series per instrument of the universe,
\* keyed by code, in the order of stocks
RunDataFetcher ==
    /\ pc = "process"
    /\ \E series \in [1..NumStocks -> HistoryPool] :
          stocks_data' = [i \in 1..NumStocks |-> <<all_data[i].code, series[i]>>]
    /\ pc' = "strategies"
    /\ UNCHANGED <<arg, ret, end_date, strategy_results, sent, log, evaluated, raised>>

\* one iteration of the loop over strategies.items(): check, then sleep
CheckStrategy ==
    /\ pc = "strategies"
    /\ LET strategy == strategies[Len(strategy_results) + 1]
       IN  \E f \in StrategyFuns :
              LET r == check(stocks_data, strategy, f, end_date)
              IN  /\ evaluated' = evaluated \cup {<<strategy, c>> : c \in r.seen}
                  /\ IF r.raised
                     THEN /\ pc' = "failed"
                          /\ raised' = "check"
                          /\ UNCHANGED <<strategy_results, sent, log>>
                     ELSE /\ strategy_results' = Append(strategy_results, <<strategy, r.keys>>)
                          /\ sent' = sent \o r.pushed
                          /\ log' = Append(log, "sleep")
                          /\ raised' = raised
                          /\ pc' = IF Len(strategy_results') = Len(strategies)
                                   THEN "strong_trend" ELSE "strategies"
    /\ UNCHANGED <<arg, ret, end_date, stocks_data>>

Classified(subject, classified) ==
    [channel |-> "strategy", kind |-> "classified", subject |-> subject,
     body |-> classified]

NotExist(subject) ==
    [channel |-> "strategy", kind |-> "not_exist", subject |-> subject, body |-> <<>>]

\* one of the three blocks at the end of process: a non-empty composite is
\* listed, wrapped code by code in 1-tuples, classified against a fresh
\* snapshot and reported; an empty one is reported as non-existent
CompositeBlock(subject, signal, after) ==
    /\ IF signal # {}
       THEN \E stocks \in Lists(signal), upstream \in SnapshotRuns :
               LET fetched == fetch_data_with_retry(upstream)
                   wrapped == [i \in DOMAIN stocks |-> PyTuple(<<PyStr(stocks[i])>>)]
                   c == classify_by_exchange(wrapped, all_data)
               IN  IF fetched.ok /\ ~c.raised
                   THEN /\ log' = Append(log, "fetch_ok")
                        /\ sent' = Append(sent, Classified(subject, c.classified))
                        /\ pc' = after
                        /\ raised' = raised
                   ELSE /\ log' = Append(log, IF fetched.ok THEN "fetch_ok" ELSE "fetch_error")
                        /\ sent' = sent
                        /\ pc' = "failed"
                        /\ raised' = "process"
       ELSE /\ sent' = Append(sent, NotExist(subject))
            /\ pc' = after
            /\ UNCHANGED <<log, raised>>
    /\ UNCHANGED <<arg, ret, end_date, stocks_data, strategy_results, evaluated>>

StrongTrend ==
    /\ pc = "strong_trend"
    /\ CompositeBlock("strong_trend", strong_trend_signal(strategy_results), "pullback")

PullbackBuy ==
    /\ pc = "pullback"
    /\ CompositeBlock("pullback", pullback_buy_signal(strategy_results), "breakout")

ShortTermBreakout ==
    /\ pc = "breakout"
    /\ CompositeBlock("breakout", short_term_breakout_signal(strategy_results), "done")

Next ==
    \/ PrepareFetch
    \/ RunDataFetcher
    \/ CheckStrategy
    \/ StrongTrend
    \/ PullbackBuy
    \/ ShortTermBreakout

Spec == Init /\ [][Next]_vars

----------------------------------------------------------------------------
(* Claims about the run *)

Ended == pc \in {"done", "failed"}

Composites == {"strong_trend", "pullback", "breakout"}

Signal(subject) ==
    CASE subject = "strong_trend" -> strong_trend_signal(strategy_results)
      [] subject = "pullback" -> pullback_buy_signal(strategy_results)
      [] OTHER -> short_term_breakout_signal(strategy_results)

Alerts(strategy) ==
    {i \in DOMAIN sent : sent[i].kind = "alert" /\ sent[i].subject = strategy}

Reports(subject) ==
    {i \in DOMAIN sent :
        sent[i].kind \in {"classified", "not_exist"} /\ sent[i].subject = subject}

Summaries == {i \in DOMAIN sent : sent[i].channel = "statistics"}

\* C6: in every run of process each evaluated strategy has one alert if it
\* matched something and none if not, each composite has exactly one
\* message, the not-exist one exactly when it is empty, and the composite
\* messages come after all the strategies were evaluated.
C6_AlertsAndComposites ==
    /\ \A i \in DOMAIN strategy_results :
          Cardinality(Alerts(strategy_results[i][1])) =
              IF strategy_results[i][2] # <<>> THEN 1 ELSE 0
    /\ \A subject \in Composites :
          /\ Reports(subject) # {} => Len(strategy_results) = Len(strategies)
          /\ \A i \in Reports(subject) :
                (sent[i].kind = "not_exist") <=> (Signal(subject) = {})
          /\ (Ended /\ raised # "prepare") => Cardinality(Reports(subject)) = 1

\* C7: when the evaluation of an instrument fails the run goes on: every
\* instrument is evaluated under every strategy and the three composite
\* messages are sent.
C7_FailureIsolated ==
    (Ended /\ raised = "check") =>
        /\ \A i \in DOMAIN strategies : \A j \in DOMAIN stocks_data :
              <<strategies[i], stocks_data[j][1]>> \in evaluated
        /\ \A subject \in Composites : Cardinality(Reports(subject)) = 1

\* C8: a failed initial fetch ends the run with the failure and with no
\* message sent; after a successful initial fetch the statistics summary
\* is the first message, and the only summary, of the run.
C8_FatalInitialFetch ==
    /\ pc # "prepare" =>
          /\ log # <<>>
          /\ log[1] = "fetch_error" => (pc = "failed" /\ raised = "prepare" /\ sent = <<>>)
          /\ log[1] = "fetch_ok" =>
                (raised # "prepare" /\ Summaries = {1} /\ sent[1].kind = "summary")
    /\ pc = "prepare" => sent = <<>>

C8_Witness ==
    /\ pc = "failed"
    /\ raised = "prepare"
    /\ log = <<"fetch_error">>
    /\ sent = <<>>

\* C10: no two snapshot fetches of a run follow each other without a sleep
\* between them.
C10_PauseBetweenFetches ==
    \A i \in 1..(Len(log) - 1) : log[i] = "sleep" \/ log[i + 1] = "sleep"

====
